---- MODULE Spec2Model ----
(***************************************************************************)
(* Model of serPy's SER codec (serPy/serPy.py): write_ser and read_ser     *)
(* acting on one destination path.  A file is the sequence of its bytes;   *)
(* struct.pack / struct.unpack, str.encode / bytes.decode, ndarray.tobytes *)
(* / np.frombuffer / reshape are modelled byte by byte.                    *)
(*                                                                         *)
(* Integers: TLC's integers are 32-bit, so the values fed to the 32- and   *)
(* 64-bit fields are taken below 2^31; they are still packed into 4 or 8   *)
(* little-endian bytes and unpacked from them.  A negative value stands    *)
(* for an argument struct.pack rejects as out of range.                    *)
(* Text: a str is a sequence of code points below 0x800, i.e. characters   *)
(* whose UTF-8 form has one or two bytes.                                  *)
(***************************************************************************)
EXTENDS Integers, Naturals, Sequences, FiniteSets, TLC

(* ---------------------------------------------------------------------- *)
(* Bounds of the model                                                    *)
(* ---------------------------------------------------------------------- *)
MaxFrames == 2
MaxDim == 2

(* ---------------------------------------------------------------------- *)
(* Widths of the header format "<14sIIIIIII40s40s40s8s8s"                 *)
(* ---------------------------------------------------------------------- *)
IdWidth == 14
TextWidth == 40
U32Width == 4
U64Width == 8
header_size == IdWidth + 7 * U32Width + 3 * TextWidth + 2 * U64Width

\* "LUCAM-RECORDER" as code points (all ASCII, so also its UTF-8 bytes)
LUCAM == <<76, 85, 67, 65, 77, 45, 82, 69, 67, 79, 82, 68, 69, 82>>

(* ---------------------------------------------------------------------- *)
(* Generic sequence helpers                                               *)
(* ---------------------------------------------------------------------- *)
Min(a, b) == IF a < b THEN a ELSE b

Take(s, n) == SubSeq(s, 1, Min(n, Len(s)))

Drop(s, n) == SubSeq(s, Min(n, Len(s)) + 1, Len(s))

Rep(x, n) == [i \in 1..n |-> x]

(* ---------------------------------------------------------------------- *)
(* str.encode("utf-8") and bytes.decode("utf-8")                          *)
(* ---------------------------------------------------------------------- *)
EncodeChar(cp) ==
    IF cp < 128 THEN <<cp>>
    ELSE <<192 + (cp \div 64), 128 + (cp % 64)>>

RECURSIVE Utf8Encode(_)
Utf8Encode(s) ==
    IF s = <<>> THEN <<>> ELSE EncodeChar(Head(s)) \o Utf8Encode(Tail(s))

IsCont(b) == b >= 128 /\ b <= 191

\* TRUE iff bytes.decode("utf-8") succeeds (one- and two-byte forms)
RECURSIVE Utf8Valid(_)
Utf8Valid(bs) ==
    IF bs = <<>> THEN TRUE
    ELSE IF bs[1] < 128 THEN Utf8Valid(Tail(bs))
    ELSE IF bs[1] >= 194 /\ bs[1] <= 223 /\ Len(bs) >= 2 /\ IsCont(bs[2])
         THEN Utf8Valid(Tail(Tail(bs)))
    ELSE FALSE

RECURSIVE Utf8Decode(_)
Utf8Decode(bs) ==
    IF bs = <<>> THEN <<>>
    ELSE IF bs[1] < 128 THEN <<bs[1]>> \o Utf8Decode(Tail(bs))
    ELSE <<(bs[1] - 192) * 64 + (bs[2] - 128)>> \o Utf8Decode(Tail(Tail(bs)))

(* ---------------------------------------------------------------------- *)
(* str.rstrip("\x00") and str.strip()                                     *)
(* ---------------------------------------------------------------------- *)
\* str.isspace() for code points below 0x800
IsSpace(cp) == cp \in {9, 10, 11, 12, 13, 28, 29, 30, 31, 32, 133, 160}

RECURSIVE RStripNul(_)
RStripNul(s) ==
    IF s = <<>> THEN <<>>
    ELSE IF s[Len(s)] = 0 THEN RStripNul(SubSeq(s, 1, Len(s) - 1))
    ELSE s

RECURSIVE LStripSpace(_)
LStripSpace(s) ==
    IF s = <<>> THEN <<>>
    ELSE IF IsSpace(s[1]) THEN LStripSpace(Tail(s))
    ELSE s

RECURSIVE RStripSpace(_)
RStripSpace(s) ==
    IF s = <<>> THEN <<>>
    ELSE IF IsSpace(s[Len(s)]) THEN RStripSpace(SubSeq(s, 1, Len(s) - 1))
    ELSE s

Strip(s) == RStripSpace(LStripSpace(s))

\* _decode_field: value.decode("utf-8").rstrip("\x00").strip()
decode_field(bs) == Strip(RStripNul(Utf8Decode(bs)))

(* ---------------------------------------------------------------------- *)
(* struct.pack / struct.unpack, little-endian                             *)
(* ---------------------------------------------------------------------- *)
\* "<n>s": the bytes cut to n, or right-padded with NUL to n
PackS(bs, n) == IF Len(bs) >= n THEN SubSeq(bs, 1, n) ELSE bs \o Rep(0, n - Len(bs))

RECURSIVE PackLE(_, _)
PackLE(v, n) == IF n = 0 THEN <<>> ELSE <<v % 256>> \o PackLE(v \div 256, n - 1)

RECURSIVE UnpackLE(_)
UnpackLE(bs) == IF bs = <<>> THEN 0 ELSE bs[1] + 256 * UnpackLE(Tail(bs))

PackU32(v) == PackLE(v, U32Width)

PackU64(v) == PackLE(v, U64Width)

\* struct.pack raises struct.error for an integer outside the field's range
InRange(v) == v >= 0

(* ---------------------------------------------------------------------- *)
(* Frames: numpy 2-D arrays, a sequence of rows of samples                *)
(* ---------------------------------------------------------------------- *)
\* frame.shape
Shape(frame) == <<Len(frame), Len(frame[1])>>

\* np.uint8 if pixel_depth == 8 else np.uint16, as the item size in bytes
ItemSize(pixel_depth) == IF pixel_depth = 8 THEN 1 ELSE 2

\* one sample of astype(dtype).tobytes(): wrapped to the item size, then laid
\* out in the machine's native byte order
SampleBytes(v, size, order) ==
    IF size = 1 THEN <<v % 256>>
    ELSE IF order = "little" THEN <<v % 256, (v \div 256) % 256>>
    ELSE <<(v \div 256) % 256, v % 256>>

RECURSIVE RowBytes(_, _, _)
RowBytes(row, size, order) ==
    IF row = <<>> THEN <<>>
    ELSE SampleBytes(Head(row), size, order) \o RowBytes(Tail(row), size, order)

\* frame.astype(dtype).tobytes(): rows one after the other (C order)
RECURSIVE FrameBytes(_, _, _)
FrameBytes(frame, size, order) ==
    IF frame = <<>> THEN <<>>
    ELSE RowBytes(Head(frame), size, order) \o FrameBytes(Tail(frame), size, order)

\* np.frombuffer(data, dtype): the flat array of samples
RECURSIVE FromBuffer(_, _, _)
FromBuffer(data, size, order) ==
    IF data = <<>> THEN <<>>
    ELSE IF size = 1 THEN <<data[1]>> \o FromBuffer(Tail(data), size, order)
    ELSE <<IF order = "little" THEN data[1] + 256 * data[2]
                               ELSE data[2] + 256 * data[1]>>
         \o FromBuffer(Tail(Tail(data)), size, order)

\* a reshape that fills the array column by column (Fortran order)
ReshapeColumnMajor(flat, h, w) ==
    [r \in 1..h |-> [c \in 1..w |-> flat[(c - 1) * h + r]]]

\* flat.reshape((h, w)), defined when Len(flat) = h * w
Reshape(flat, h, w) == [r \in 1..h |-> [c \in 1..w |-> flat[(r - 1) * w + c]]]

(* ---------------------------------------------------------------------- *)
(* Optional timestamps: None, or a list                                   *)
(* ---------------------------------------------------------------------- *)
None == [some |-> FALSE, val |-> <<>>]

Some(l) == [some |-> TRUE, val |-> l]

\* truth value of `timestamps` in "if timestamps:"
Truthy(ts) == ts.some /\ ts.val # <<>>

(* ---------------------------------------------------------------------- *)
(* The destination file                                                   *)
(* ---------------------------------------------------------------------- *)
NoFile == [exists |-> FALSE, data |-> <<>>]

File(bytes) == [exists |-> TRUE, data |-> bytes]

(* ---------------------------------------------------------------------- *)
(* write_ser                                                              *)
(* ---------------------------------------------------------------------- *)
\* the integer arguments of struct.pack(header_format, ...) are all in range
HeaderPackable(md) ==
    /\ InRange(md.lu_id) /\ InRange(md.color_id)
    /\ InRange(md.image_width) /\ InRange(md.image_height)
    /\ InRange(md.pixel_depth) /\ InRange(md.frame_count)
    /\ InRange(md.date_time) /\ InRange(md.date_time_utc)

\* int(metadata["little_endian"])
BoolToInt(b) == IF b THEN 1 ELSE 0

\* struct.pack(header_format, ...)
PackHeader(md) ==
    PackS(Utf8Encode(md.file_id), IdWidth)
    \o PackU32(md.lu_id)
    \o PackU32(md.color_id)
    \o PackU32(BoolToInt(md.little_endian))
    \o PackU32(md.image_width)
    \o PackU32(md.image_height)
    \o PackU32(md.pixel_depth)
    \o PackU32(md.frame_count)
    \o PackS(Utf8Encode(md.observer), TextWidth)
    \o PackS(Utf8Encode(md.instrument), TextWidth)
    \o PackS(Utf8Encode(md.telescope), TextWidth)
    \o PackU64(md.date_time)
    \o PackU64(md.date_time_utc)

\* "for frame in frames": the bytes written until the loop ends or raises
RECURSIVE WriteFrames(_, _, _, _, _)
WriteFrames(frames, h, w, size, order) ==
    IF frames = <<>> THEN [ok |-> TRUE, bytes |-> <<>>]
    ELSE IF Shape(Head(frames)) # <<h, w>> THEN [ok |-> FALSE, bytes |-> <<>>]
    ELSE LET rest == WriteFrames(Tail(frames), h, w, size, order)
         IN  [ok |-> rest.ok,
              bytes |-> FrameBytes(Head(frames), size, order) \o rest.bytes]

RECURSIVE WriteTimestamps(_)
WriteTimestamps(l) ==
    IF l = <<>> THEN <<>> ELSE PackU64(Head(l)) \o WriteTimestamps(Tail(l))

\* the "if timestamps:" block: what it raises, or what it writes
TimestampBlock(ts, frame_count) ==
    IF ~Truthy(ts) THEN [ok |-> TRUE, bytes |-> <<>>]
    ELSE IF Len(ts.val) # frame_count THEN [ok |-> FALSE, bytes |-> <<>>]
    ELSE [ok |-> TRUE, bytes |-> WriteTimestamps(ts.val)]

\* write_ser(output_path, metadata, frames, timestamps): how the call ends and
\* what the destination holds when it has ended
write_ser(dest, md, frames, ts, order) ==
    IF md.file_id # LUCAM
    THEN [status |-> "ValueError: file_id", disk |-> dest]
    ELSE IF Len(frames) # md.frame_count
    THEN [status |-> "ValueError: frame count", disk |-> dest]
    ELSE IF ~HeaderPackable(md)
    THEN [status |-> "struct.error", disk |-> File(<<>>)]
    ELSE
      LET header == PackHeader(md)
          fr == WriteFrames(frames, md.image_height, md.image_width,
                            ItemSize(md.pixel_depth), order)
          tb == TimestampBlock(ts, md.frame_count)
      IN  IF ~fr.ok
          THEN [status |-> "ValueError: frame dimensions",
                disk |-> File(header \o fr.bytes)]
          ELSE IF ~tb.ok
          THEN [status |-> "ValueError: timestamp count",
                disk |-> File(header \o fr.bytes)]
          ELSE [status |-> "ok", disk |-> File(header \o fr.bytes \o tb.bytes)]

(* ---------------------------------------------------------------------- *)
(* read_ser                                                               *)
(* ---------------------------------------------------------------------- *)
\* the n bytes of the header at offset off
Field(header, off, n) == SubSeq(header, off + 1, off + n)

OffInts == IdWidth

OffTexts == OffInts + 7 * U32Width

OffDates == OffTexts + 3 * TextWidth

\* the k-th (from 0) "I" field of the header
IntField(header, k) == UnpackLE(Field(header, OffInts + k * U32Width, U32Width))

\* the k-th (from 0) "40s" field of the header
TextField(header, k) == Field(header, OffTexts + k * TextWidth, TextWidth)

\* the k-th (from 0) "8s" field of the header
DateField(header, k) == Field(header, OffDates + k * U64Width, U64Width)

\* an id check that looks at the first five bytes, "LUCAM", only
FileIdPrefixAccepted(file_id) == SubSeq(file_id, 1, 5) = SubSeq(LUCAM, 1, 5)

\* "if file_id != b'LUCAM-RECORDER'" does not raise
FileIdAccepted(file_id) == file_id = LUCAM

\* every _decode_field call of the metadata dict succeeds
FieldsDecodable(header) ==
    /\ Utf8Valid(Field(header, 0, IdWidth))
    /\ \A k \in 0..2 : Utf8Valid(TextField(header, k))

\* the metadata dict built from the unpacked header
DecodeMetadata(header) ==
    [file_id |-> decode_field(Field(header, 0, IdWidth)),
     lu_id |-> IntField(header, 0),
     color_id |-> IntField(header, 1),
     little_endian |-> IntField(header, 2) # 0,
     image_width |-> IntField(header, 3),
     image_height |-> IntField(header, 4),
     pixel_depth |-> IntField(header, 5),
     frame_count |-> IntField(header, 6),
     observer |-> decode_field(TextField(header, 0)),
     instrument |-> decode_field(TextField(header, 1)),
     telescope |-> decode_field(TextField(header, 2)),
     date_time |-> UnpackLE(DateField(header, 0)),
     date_time_utc |-> UnpackLE(DateField(header, 1))]

\* frame_size = image_width * image_height * (pixel_depth // 8)
frame_size(image_width, image_height, pixel_depth) ==
    image_width * image_height * (pixel_depth \div 8)

\* "for _ in range(frame_count)": the frames read, the bytes left, and how
\* the loop ended
RECURSIVE ReadFrames(_, _, _, _, _, _, _)
ReadFrames(data, count, nbytes, size, h, w, order) ==
    IF count = 0 THEN [status |-> "ok", frames |-> <<>>, rest |-> data]
    ELSE
      LET frame_data == Take(data, nbytes)
      IN  IF frame_data = <<>>
          THEN [status |-> "ValueError: Unexpected end of file",
                frames |-> <<>>, rest |-> data]
          ELSE IF Len(frame_data) % size # 0
          THEN [status |-> "ValueError: buffer size",
                frames |-> <<>>, rest |-> Drop(data, nbytes)]
          ELSE IF Len(frame_data) \div size # h * w
          THEN [status |-> "ValueError: cannot reshape",
                frames |-> <<>>, rest |-> Drop(data, nbytes)]
          ELSE
            LET more == ReadFrames(Drop(data, nbytes), count - 1,
                                   nbytes, size, h, w, order)
            IN  [status |-> more.status,
                 frames |-> <<Reshape(FromBuffer(frame_data, size, order), h, w)>>
                            \o more.frames,
                 rest |-> more.rest]

\* a timestamp reader that wants more than 8 * frame_count bytes left
ReadTimestampsStrict(remaining_data, frame_count) ==
    IF Len(remaining_data) > U64Width * frame_count
    THEN Some([i \in 1..frame_count |->
                  UnpackLE(SubSeq(remaining_data, (i - 1) * U64Width + 1,
                                  i * U64Width))])
    ELSE None

\* the timestamps read from the bytes after the frames
ReadTimestamps(remaining_data, frame_count) ==
    IF Len(remaining_data) >= U64Width * frame_count
    THEN Some([i \in 1..frame_count |->
                  UnpackLE(SubSeq(remaining_data, (i - 1) * U64Width + 1,
                                  i * U64Width))])
    ELSE None

\* a call that raised: nothing is returned
Raised(error, position) ==
    [status |-> error, returned |-> FALSE, metadata |-> <<>>, frames |-> <<>>,
     timestamps |-> None, consumed |-> position]

\* read_ser(input_path): how the call ends, what it returns, and how many
\* bytes of the file it had read when it ended
read_ser(src, order) ==
    IF ~src.exists THEN Raised("FileNotFoundError", 0)
    ELSE
      LET header == Take(src.data, header_size)
      IN  IF Len(header) < header_size
          THEN Raised("struct.error", Len(header))
          ELSE IF ~FileIdAccepted(Field(header, 0, IdWidth))
          THEN Raised("ValueError: Incorrect File ID", header_size)
          ELSE IF ~FieldsDecodable(header)
          THEN Raised("UnicodeDecodeError", header_size)
          ELSE
            LET metadata == DecodeMetadata(header)
                nbytes == frame_size(metadata.image_width,
                                    metadata.image_height,
                                    metadata.pixel_depth)
                fr == ReadFrames(Drop(src.data, header_size),
                                 metadata.frame_count, nbytes,
                                 ItemSize(metadata.pixel_depth),
                                 metadata.image_height, metadata.image_width,
                                 order)
            IN  IF fr.status # "ok"
                THEN Raised(fr.status, Len(src.data) - Len(fr.rest))
                ELSE [status |-> "ok", returned |-> TRUE,
                      metadata |-> metadata, frames |-> fr.frames,
                      timestamps |-> ReadTimestamps(fr.rest,
                                                    metadata.frame_count),
                      consumed |-> Len(src.data)]

(* ---------------------------------------------------------------------- *)
(* Arguments the calls are made with                                      *)
(* ---------------------------------------------------------------------- *)
\* "Tester"
Tester == <<84, 101, 115, 116, 101, 114>>

\* str values for a 40-byte text field: empty, plain, with a leading or a
\* trailing blank, with a trailing NUL, with an inner blank, a two-byte
\* character, exactly 40 bytes, 41 bytes, and 41 bytes whose 40th and 41st
\* are one character
Texts ==
    {<<>>, Tester, <<32, 97>>, <<97, 32>>, <<97, 0>>, <<97, 32, 98>>, <<233>>,
     Rep(97, TextWidth), Rep(97, TextWidth + 1),
     Rep(97, TextWidth - 1) \o <<233>>}

\* the metadata dict of tests/test_read_write.py, one frame of one pixel
BaseMetadata ==
    [file_id |-> LUCAM, lu_id |-> 1, color_id |-> 0, little_endian |-> TRUE,
     image_width |-> 1, image_height |-> 1, pixel_depth |-> 8,
     frame_count |-> 1, observer |-> Tester,
     instrument |-> <<84, 101, 115, 116, 67, 97, 109>>,
     telescope |-> <<84, 101, 115, 116, 83, 99, 111, 112, 101>>,
     date_time |-> 16909060, date_time_utc |-> 84281096]

\* pixel_depth values: 8, between 8 and 16, 16, above 16
Depths == {8, 12, 16, 32}

\* metadata differing in the dimensions, the depth and the frame count
ShapeMetadatas ==
    {[BaseMetadata EXCEPT !.image_width = w, !.image_height = h,
                          !.pixel_depth = d, !.frame_count = n] :
        w \in 1..MaxDim, h \in 1..MaxDim, d \in Depths, n \in 0..MaxFrames}

\* metadata differing in one of the other fields
FieldMetadatas ==
    {[BaseMetadata EXCEPT !.observer = t] : t \in Texts}
    \cup {[BaseMetadata EXCEPT !.instrument = t] : t \in Texts}
    \cup {[BaseMetadata EXCEPT !.telescope = t] : t \in Texts}
    \cup {[BaseMetadata EXCEPT !.file_id = t] :
             t \in {[LUCAM EXCEPT ![IdWidth] = 88], LUCAM \o <<50>>, Tester}}
    \cup {[BaseMetadata EXCEPT !.lu_id = v] : v \in {258, -1}}
    \cup {[BaseMetadata EXCEPT !.color_id = 8, !.little_endian = FALSE]}

Metadatas == ShapeMetadatas \cup FieldMetadatas

\* an h x w array holding first, first + 1, ... row by row
MakeFrame(h, w, first) ==
    [r \in 1..h |-> [c \in 1..w |-> first + (r - 1) * w + (c - 1)]]

\* first sample of the first frame: 1 keeps every sample below 256, 300
\* gives samples that need 16 bits
Seeds == {1, 300}

\* shapes other than (h, w): the transpose, and one more row
OtherShapes(h, w) == {<<w, h>>, <<h + 1, w>>} \ {<<h, w>>}

\* lists of up to MaxFrames frames, all of shape (h, w), and the same lists
\* with one frame of another shape
FrameLists(h, w) ==
    {[k \in 1..n |->
        MakeFrame(IF k = bad THEN s[1] ELSE h, IF k = bad THEN s[2] ELSE w,
                  seed + (k - 1) * (MaxDim + 1) * (MaxDim + 1))] :
        n \in 0..MaxFrames, bad \in 0..MaxFrames, s \in OtherShapes(h, w),
        seed \in Seeds}

Tick(i) == 16909060 + 257 * i

\* timestamps=None, or a list of 0 .. MaxFrames + 1 distinct ticks
TimestampArgs ==
    {None} \cup {Some([i \in 1..n |-> Tick(i)]) : n \in 0..(MaxFrames + 1)}

\* the lists of FrameLists(h, w) whose frames all have shape (h, w)
GoodFrameLists(h, w) ==
    {[k \in 1..n |-> MakeFrame(h, w, seed + (k - 1) * (MaxDim + 1) * (MaxDim + 1))] :
        n \in 0..MaxFrames, seed \in Seeds}

\* the calls of write_ser: every combination of dimensions, depth, frame
\* count, frame list and timestamps; and, for the other metadata fields,
\* the calls with frames of the right shape
WriteCalls ==
    UNION {{<<md, frames, ts>> :
               frames \in FrameLists(md.image_height, md.image_width),
               ts \in TimestampArgs} : md \in ShapeMetadatas}
    \cup {<<md, frames, ts>> :
        md \in FieldMetadatas, frames \in GoodFrameLists(1, 1),
        ts \in {None, Some(<<Tick(1)>>)}}

\* what the destination path holds before the first call
InitialDisks == {NoFile, File(<<83, 69, 82>>)}

(* ---------------------------------------------------------------------- *)
(* State                                                                  *)
(* ---------------------------------------------------------------------- *)
VARIABLES
    byteorder,   \* sys.byteorder of the machine: "little" or "big"
    disk,        \* the file at the path
    before,      \* the file at the path when write_ser was called
    call,        \* the arguments write_ser was called with
    wres,        \* how the write_ser call ended
    rres,        \* how the read_ser call ended and what it returned
    damage,      \* what happened to the written file before it was read
    pc           \* "idle", "written", "damaged" or "read"

vars == <<byteorder, disk, before, call, wres, rres, damage, pc>>

NotCalled == Raised("not called", 0)

Init ==
    /\ byteorder \in {"little", "big"}
    /\ disk \in InitialDisks
    /\ before = disk
    /\ call = [metadata |-> <<>>, frames |-> <<>>, timestamps |-> None]
    /\ wres = "not called"
    /\ rres = NotCalled
    /\ damage = "none"
    /\ pc = "idle"

\* write_ser(path, metadata, frames, timestamps)
CallWriteSer(md, frames, ts) ==
    /\ pc = "idle"
    /\ LET r == write_ser(disk, md, frames, ts, byteorder)
       IN  /\ disk' = r.disk
           /\ wres' = r.status
    /\ before' = disk
    /\ call' = [metadata |-> md, frames |-> frames, timestamps |-> ts]
    /\ pc' = "written"
    /\ UNCHANGED <<byteorder, rres, damage>>

\* lengths a written file is cut to: nothing, one byte short of the header,
\* the start of each frame, one byte into it, one byte short of its end,
\* and one byte short of the whole file
CutPoints(md, len) ==
    LET fs == md.image_width * md.image_height * ItemSize(md.pixel_depth)
    IN  ({0, header_size - 1, len - 1}
         \cup {header_size + k * fs + d :
                  k \in 0..(md.frame_count - 1), d \in {0, 1, fs - 1}})
        \cap 0..(len - 1)

\* the file a successful write_ser left is cut short
TruncateFile(n) ==
    /\ pc = "written"
    /\ wres = "ok"
    /\ n < Len(disk.data)
    /\ disk' = File(Take(disk.data, n))
    /\ damage' = "truncated"
    /\ pc' = "damaged"
    /\ UNCHANGED <<byteorder, before, call, wres, rres>>

\* one byte of the id field of the file a successful write_ser left changes
CorruptId(i, b) ==
    /\ pc = "written"
    /\ wres = "ok"
    /\ disk.data[i] # b
    /\ disk' = File([disk.data EXCEPT ![i] = b])
    /\ damage' = "id"
    /\ pc' = "damaged"
    /\ UNCHANGED <<byteorder, before, call, wres, rres>>

\* read_ser(path)
CallReadSer ==
    /\ pc # "read"
    /\ rres' = read_ser(disk, byteorder)
    /\ pc' = "read"
    /\ UNCHANGED <<byteorder, disk, before, call, wres, damage>>

\* some call of write_ser is made
WriteStep ==
    /\ pc = "idle"
    /\ \E c \in WriteCalls : CallWriteSer(c[1], c[2], c[3])

\* the written file loses its tail
TruncateStep ==
    /\ pc = "written"
    /\ \E n \in CutPoints(call.metadata, Len(disk.data)) : TruncateFile(n)

\* the first or the last byte of the written file's id becomes ' ' or 'X'
CorruptStep ==
    /\ pc = "written"
    /\ \E i \in {1, IdWidth}, b \in {32, 88} : CorruptId(i, b)

Next ==
    \/ WriteStep
    \/ TruncateStep
    \/ CorruptStep
    \/ CallReadSer

Spec == Init /\ [][Next]_vars

(* ---------------------------------------------------------------------- *)
(* Vocabulary of the properties                                           *)
(* ---------------------------------------------------------------------- *)
TextFits(t) == Len(Utf8Encode(t)) <= TextWidth

Oversized(md) ==
    ~TextFits(md.observer) \/ ~TextFits(md.instrument) \/ ~TextFits(md.telescope)

\* a valid Metadata: the id, positive dimensions, depth 8 or 16, unsigned
\* integers, text fields within 40 bytes
ValidMetadata(md) ==
    /\ md.file_id = LUCAM
    /\ md.image_width > 0 /\ md.image_height > 0
    /\ md.pixel_depth \in {8, 16}
    /\ HeaderPackable(md)
    /\ ~Oversized(md)

\* a text field that strip() and rstrip("\x00") leave alone
Trimmed(t) ==
    t = <<>> \/ (~IsSpace(t[1]) /\ ~IsSpace(t[Len(t)]) /\ t[Len(t)] # 0)

TrimmedTexts(md) ==
    Trimmed(md.observer) /\ Trimmed(md.instrument) /\ Trimmed(md.telescope)

SamplesFit(frame, pixel_depth) ==
    \A r \in 1..Len(frame) : \A c \in 1..Len(frame[r]) :
        frame[r][c] >= 0 /\ frame[r][c] < (IF pixel_depth = 8 THEN 256 ELSE 65536)

RightShapes(md, frames) ==
    \A k \in 1..Len(frames) :
        Shape(frames[k]) = <<md.image_height, md.image_width>>

\* frame_count frames of shape (image_height, image_width) whose samples fit
ValidFrames(md, frames) ==
    /\ Len(frames) = md.frame_count
    /\ RightShapes(md, frames)
    /\ \A k \in 1..Len(frames) : SamplesFit(frames[k], md.pixel_depth)

\* no timestamps, or as many as frame_count
ValidTimestamps(md, ts) == ~ts.some \/ Len(ts.val) = md.frame_count

\* write_ser was called and read_ser then read the file as it left it
WrittenThenRead == pc = "read" /\ wres # "not called" /\ damage = "none"

\* the errors write_ser raises itself
WriteValueErrors ==
    {"ValueError: file_id", "ValueError: frame count",
     "ValueError: frame dimensions", "ValueError: timestamp count"}

(* ---------------------------------------------------------------------- *)
(* C1                                                                     *)
(* ---------------------------------------------------------------------- *)
\* the metadata and the frames read_ser returned are those write_ser was given
SameMetadataAndFrames ==
    /\ wres = "ok"
    /\ rres.status = "ok"
    /\ rres.metadata = call.metadata
    /\ Len(rres.frames) = Len(call.frames)
    /\ \A k \in 1..Len(call.frames) : rres.frames[k] = call.frames[k]

\* C1 as stated: for every valid Metadata (text fields within 40 bytes) and
\* every valid frame list, write_ser then read_ser returns the same metadata
\* field for field and the same frames in the same order.
C1_AsStated ==
    (/\ WrittenThenRead
     /\ ValidMetadata(call.metadata)
     /\ ValidFrames(call.metadata, call.frames)
     /\ ValidTimestamps(call.metadata, call.timestamps))
    => SameMetadataAndFrames

\* C1 amended: for every valid Metadata whose observer, instrument and
\* telescope have no leading or trailing whitespace and no trailing NUL, and
\* every valid frame list, write_ser then read_ser returns the same metadata
\* field for field and the same frames in the same order.
C1_RoundTrip ==
    (/\ WrittenThenRead
     /\ ValidMetadata(call.metadata)
     /\ TrimmedTexts(call.metadata)
     /\ ValidFrames(call.metadata, call.frames)
     /\ ValidTimestamps(call.metadata, call.timestamps))
    => SameMetadataAndFrames

\* two 2 x 2 frames of 16-bit samples were written and read back
C1_Witness ==
    /\ WrittenThenRead
    /\ ValidMetadata(call.metadata)
    /\ TrimmedTexts(call.metadata)
    /\ ValidFrames(call.metadata, call.frames)
    /\ call.metadata.pixel_depth = 16
    /\ call.metadata.image_width = 2 /\ call.metadata.image_height = 2
    /\ Len(call.frames) = 2
    /\ call.frames[1][1][1] = 300
    /\ rres.status = "ok"
    /\ rres.frames = call.frames
    /\ rres.metadata = call.metadata

(* ---------------------------------------------------------------------- *)
(* C2                                                                     *)
(* ---------------------------------------------------------------------- *)
\* C2: for every valid (Metadata, Frames) and every timestamp list of length
\* frame_count, write_ser then read_ser returns the same list of timestamps.
C2_TimestampRoundTrip ==
    (/\ WrittenThenRead
     /\ ValidMetadata(call.metadata)
     /\ ValidFrames(call.metadata, call.frames)
     /\ call.timestamps.some
     /\ Len(call.timestamps.val) = call.metadata.frame_count)
    => (/\ wres = "ok"
        /\ rres.status = "ok"
        /\ rres.timestamps.some
        /\ rres.timestamps.val = call.timestamps.val)

\* two distinct timestamps were written after two frames and read back
C2_Witness ==
    /\ WrittenThenRead
    /\ ValidMetadata(call.metadata)
    /\ ValidFrames(call.metadata, call.frames)
    /\ call.timestamps.some
    /\ Len(call.timestamps.val) = 2
    /\ call.metadata.frame_count = 2
    /\ call.timestamps.val[1] # call.timestamps.val[2]
    /\ rres.status = "ok"
    /\ rres.timestamps = call.timestamps

(* ---------------------------------------------------------------------- *)
(* C3                                                                     *)
(* ---------------------------------------------------------------------- *)
\* C3: for every valid (Metadata, Frames), frame_count = 0 included,
\* write_ser without timestamps then read_ser returns None as the
\* timestamps, not an empty list and not an error.
C3_AbsencePreserved ==
    (/\ WrittenThenRead
     /\ ValidMetadata(call.metadata)
     /\ ValidFrames(call.metadata, call.frames)
     /\ call.timestamps = None)
    => (/\ wres = "ok"
        /\ rres.status = "ok"
        /\ rres.timestamps = None)

(* ---------------------------------------------------------------------- *)
(* C4                                                                     *)
(* ---------------------------------------------------------------------- *)
\* the call breaks one of the rules write_ser is to validate
FailsValidation(c) ==
    \/ c.metadata.file_id # LUCAM
    \/ Len(c.frames) # c.metadata.frame_count
    \/ ~RightShapes(c.metadata, c.frames)
    \/ (c.timestamps.some /\ Len(c.timestamps.val) # c.metadata.frame_count)
    \/ Oversized(c.metadata)

\* C4: a write_ser call that fails validation raises before the destination
\* is opened or written: the destination holds what it held before the call.
C4_ValidationBeforeOutput ==
    (pc = "written" /\ FailsValidation(call))
    => (wres \in WriteValueErrors /\ disk = before)

(* ---------------------------------------------------------------------- *)
(* C5                                                                     *)
(* ---------------------------------------------------------------------- *)
\* C5: after a write_ser call that ended in an error, the file the call
\* left is not one read_ser decodes successfully.
C5_AllOrNothing ==
    (/\ WrittenThenRead
     /\ wres # "ok"
     /\ disk # before)
    => rres.status # "ok"

(* ---------------------------------------------------------------------- *)
(* C6                                                                     *)
(* ---------------------------------------------------------------------- *)
\* the header of the stream is a well-formed one
WellFormedHeader(header) ==
    /\ Field(header, 0, IdWidth) = LUCAM
    /\ FieldsDecodable(header)
    /\ IntField(header, 3) > 0 /\ IntField(header, 4) > 0
    /\ IntField(header, 5) \in {8, 16}

\* width * height * (1 if pixel_depth = 8, 2 if pixel_depth > 8)
PerFrameBytes(image_width, image_height, pixel_depth) ==
    image_width * image_height * (IF pixel_depth > 8 THEN 2 ELSE 1)

\* the stream is shorter than the header, or than the header and the frames
\* its header declares
Truncated(data) ==
    \/ Len(data) < header_size
    \/ /\ WellFormedHeader(Take(data, header_size))
       /\ Len(data) - header_size <
            IntField(data, 6) * PerFrameBytes(IntField(data, 3), IntField(data, 4),
                                              IntField(data, 5))

\* the error read_ser raises for a stream that ended too early
TruncatedError == "ValueError: Unexpected end of file"

\* C6: read_ser of a stream shorter than the header, or of a stream with a
\* valid header and fewer bytes than its frames need, raises the truncation
\* error and returns nothing.
C6_TruncatedRejected ==
    (pc = "read" /\ disk.exists /\ Truncated(disk.data))
    => (rres.status = TruncatedError /\ ~rres.returned)

(* ---------------------------------------------------------------------- *)
(* C7                                                                     *)
(* ---------------------------------------------------------------------- *)
\* C7: read_ser of a stream of at least header size whose 14-byte id is not
\* "LUCAM-RECORDER" raises the file-id error whatever follows, having read
\* the header only, and returns nothing.
C7_WrongIdRejected ==
    (/\ pc = "read"
     /\ disk.exists
     /\ Len(disk.data) >= header_size
     /\ Take(disk.data, IdWidth) # LUCAM)
    => (/\ rres.status = "ValueError: Incorrect File ID"
        /\ ~rres.returned
        /\ rres.consumed = header_size)

\* a complete file with frames and timestamps whose id ends in another byte
\* was read and rejected
C7_Witness ==
    /\ pc = "read"
    /\ damage = "id"
    /\ Take(disk.data, IdWidth - 1) = Take(LUCAM, IdWidth - 1)
    /\ disk.data[IdWidth] # LUCAM[IdWidth]
    /\ call.metadata.frame_count = 2
    /\ Truthy(call.timestamps)
    /\ Len(disk.data) > header_size
    /\ rres.status = "ValueError: Incorrect File ID"
    /\ rres.consumed = header_size

(* ---------------------------------------------------------------------- *)
(* C8                                                                     *)
(* ---------------------------------------------------------------------- *)
\* C8: write_ser raises for every Metadata with a text field longer than 40
\* bytes and writes no header with the field shortened.
C8_OversizedRejected ==
    (wres # "not called" /\ Oversized(call.metadata))
    => wres \in WriteValueErrors

(* ---------------------------------------------------------------------- *)
(* C9                                                                     *)
(* ---------------------------------------------------------------------- *)
\* C9: write_ser raises for every supplied timestamp list, the empty list
\* included, whose length differs from frame_count.
C9_TimestampCountEnforced ==
    (/\ wres # "not called"
     /\ call.timestamps.some
     /\ Len(call.timestamps.val) # call.metadata.frame_count)
    => wres \in WriteValueErrors

(* ---------------------------------------------------------------------- *)
(* C10                                                                    *)
(* ---------------------------------------------------------------------- *)
\* C10: for every pixel_depth > 8 read_ser takes width * height * 2 bytes
\* per frame, the number write_ser wrote per frame, so a file written with
\* such a depth is read back with the same frames.
C10_SameFrameSize ==
    (/\ WrittenThenRead
     /\ wres = "ok"
     /\ call.metadata.pixel_depth > 8
     /\ call.metadata.frame_count > 0
     /\ \A k \in 1..Len(call.frames) : SamplesFit(call.frames[k], 16))
    => (/\ frame_size(call.metadata.image_width, call.metadata.image_height,
                     call.metadata.pixel_depth)
           = PerFrameBytes(call.metadata.image_width,
                           call.metadata.image_height,
                           call.metadata.pixel_depth)
        /\ rres.status = "ok"
        /\ rres.frames = call.frames)

====
